---- MODULE Spec2Model ----
(***************************************************************************)
(* A model of client-success-helpers (src/main.py): the registry of scalar *)
(* search items, the label/value scanner, the invoice-body segmenter and   *)
(* the batch loop over a ZIP archive.                                      *)
(*                                                                         *)
(* Python strings are sequences of one-character strings, so that strip,   *)
(* split, join, isdigit, lower, endswith and the regular expressions are   *)
(* computed character by character.  Python dicts are sequences of         *)
(* <<key, value>> pairs in insertion order.  Python indices are 0-based    *)
(* and kept so: values[value_index] is written s.values[s.value_index+1].  *)
(***************************************************************************)
EXTENDS Integers, Sequences, FiniteSets, TLC

VARIABLES
    seg,            \* frame of parse_invoice_text (main.py:62-212)
    scan,           \* frame of process_key_value_pairs (main.py:223-241)
    collection,     \* KeyItemCollection.items: sequence of KeyItem records
    error,          \* exception raised by the last registry operation, or NoneVal
    archive,        \* zip_ref.infolist(): sequence of [filename, document]
    idx,            \* enumerate index of process_zip_archive (main.py:292)
    batch_pc,       \* position inside process_zip_archive
    invoice_data,   \* value returned by process_single_pdf (main.py:303)
    results,        \* list returned by process_zip_archive (main.py:286)
    progress_calls, \* arguments of every progress_callback invocation so far
    has_callback,   \* whether a progress_callback was passed
    collection0,     \* the registry results as they were when the batch started
    construction,   \* frame of a KeyItem(...) call (main.py:20-32), or NoneVal
    workers,        \* two interleaved workers on one collection: pc, document, record
    invoice_body    \* frame of extract_invoice_body (main.py:244-250)

vars == <<seg, scan, collection, error, archive, idx, batch_pc, invoice_data,
          results, progress_calls, has_callback, collection0, construction,
          workers, invoice_body>>

(***************************************************************************)
(* Python values                                                           *)
(***************************************************************************)

\* None: a one-element tuple holding a multi-character atom, so it differs
\* from every string (strings hold one-character elements only).
NoneVal == <<"None">>

\* a raised IndexError, told apart from every string and from None alike
IndexError == <<"IndexError">>

Digit == {"0","1","2","3","4","5","6","7","8","9"}

AsciiUpper == {"A","B","C","D","E","F","G","H","I","J","K","L","M",
               "N","O","P","Q","R","S","T","U","V","W","X","Y","Z"}

AsciiLower == {"a","b","c","d","e","f","g","h","i","j","k","l","m",
               "n","o","p","q","r","s","t","u","v","w","x","y","z"}

Whitespace == {" ", "\t", "\r", "\n"}

NL == "\n"

\* str.strip()
RECURSIVE lstrip(_)
lstrip(s) == IF s # <<>> /\ Head(s) \in Whitespace THEN lstrip(Tail(s)) ELSE s

RECURSIVE rstrip(_)
rstrip(s) ==
    IF s # <<>> /\ s[Len(s)] \in Whitespace
    THEN rstrip(SubSeq(s, 1, Len(s) - 1))
    ELSE s

strip(s) == rstrip(lstrip(s))

\* str.split(sep) for a one-character separator
RECURSIVE split(_, _)
split(text, sep) ==
    IF \E i \in 1..Len(text) : text[i] = sep
    THEN LET i == CHOOSE k \in 1..Len(text) :
                      text[k] = sep /\ \A j \in 1..(k - 1) : text[j] # sep
         IN  <<SubSeq(text, 1, i - 1)>> \o split(SubSeq(text, i + 1, Len(text)), sep)
    ELSE <<text>>

\* sep.join(parts)
RECURSIVE join(_, _)
join(sep, parts) ==
    IF parts = <<>> THEN <<>>
    ELSE IF Len(parts) = 1 THEN parts[1]
    ELSE parts[1] \o sep \o join(sep, Tail(parts))

\* s.replace(ch, '') for a one-character ch
remove(s, ch) == SelectSeq(s, LAMBDA c : c # ch)

\* str.isdigit(): non-empty and every character a digit
isdigit(s) == Len(s) > 0 /\ \A i \in 1..Len(s) : s[i] \in Digit

\* str.lower() on ASCII text
lower_char(c) ==
    IF c \in AsciiUpper
    THEN CHOOSE l \in AsciiLower :
            \E n \in 1..26 :
               /\ <<"A","B","C","D","E","F","G","H","I","J","K","L","M",
                    "N","O","P","Q","R","S","T","U","V","W","X","Y","Z">>[n] = c
               /\ <<"a","b","c","d","e","f","g","h","i","j","k","l","m",
                    "n","o","p","q","r","s","t","u","v","w","x","y","z">>[n] = l
    ELSE c

lower(s) == [i \in 1..Len(s) |-> lower_char(s[i])]

\* str.endswith(suffix)
endswith(s, suffix) ==
    /\ Len(suffix) <= Len(s)
    /\ SubSeq(s, Len(s) - Len(suffix) + 1, Len(s)) = suffix

\* str.islower(): at least one cased character and no uppercase one
islower(s) ==
    /\ \E i \in 1..Len(s) : s[i] \in AsciiLower
    /\ \A i \in 1..Len(s) : s[i] \notin AsciiUpper

\* dict operations on sequences of <<key, value>> pairs
DictKeys(d) == [i \in 1..Len(d) |-> d[i][1]]

DictHas(d, k) == \E i \in 1..Len(d) : d[i][1] = k

DictGet(d, k) == d[CHOOSE i \in 1..Len(d) : d[i][1] = k][2]

\* d[k] = v: an existing key keeps its place, a new key goes last
DictSet(d, k, v) ==
    IF DictHas(d, k)
    THEN [i \in 1..Len(d) |-> IF d[i][1] = k THEN <<k, v>> ELSE d[i]]
    ELSE Append(d, <<k, v>>)

\* del d[k]
DictDel(d, k) == SelectSeq(d, LAMBDA e : e[1] # k)

\* d.update(e), also {**d, **e}
RECURSIVE DictUpdate(_, _)
DictUpdate(d, e) ==
    IF e = <<>> THEN d
    ELSE DictUpdate(DictSet(d, e[1][1], e[1][2]), Tail(e))

(***************************************************************************)
(* Literals of the source                                                  *)
(***************************************************************************)

S_Line == <<"L","i","n","e">>
S_MarketingPartNumber ==
    <<"M","a","r","k","e","t","i","n","g"," ","P","a","r","t"," ",
      "N","u","m","b","e","r">>
S_Description == <<"D","e","s","c","r","i","p","t","i","o","n">>
S_ComprisingManufacturingPartNo ==
    <<"C","o","m","p","r","i","s","i","n","g"," ","M","a","n","u","f","a","c",
      "t","u","r","i","n","g"," ","P","a","r","t"," ","N","o">>
S_AssembledIn == <<"A","s","s","e","m","b","l","e","d"," ","I","n">>
S_QtyPerCountry == <<"Q","t","y"," ","P","e","r"," ","C","o","u","n","t","r","y">>
S_ShippedQty == <<"S","h","i","p","p","e","d"," ","Q","t","y">>
S_UnitPrice == <<"U","n","i","t"," ","P","r","i","c","e">>
S_LineTotal == <<"L","i","n","e"," ","T","o","t","a","l">>
S_License == <<"L","i","c","e","n","s","e",":">>
S_filename == <<"f","i","l","e","n","a","m","e">>
S_dotpdf == <<".","p","d","f">>

(***************************************************************************)
(* Boundary classifiers: InvoiceTextPatternsIntefrface                     *)
(***************************************************************************)

\* re.match(r'^\d{7}-\d{5,6}$', t) is not None
PartNumberShape(t) ==
    /\ Len(t) \in {13, 14}
    /\ \A i \in 1..7 : t[i] \in Digit
    /\ t[8] = "-"
    /\ \A i \in 9..Len(t) : t[i] \in Digit

\* re.compile(r'[A-Z]{2}\s+[A-Z][a-z]+.*').search(t): somewhere in t two
\* capitals, a run of whitespace, a capital and a lowercase letter
CountryShape(t) ==
    \E i \in 1..Len(t) : \E j \in 1..Len(t) :
        /\ i + 2 <= j
        /\ j + 2 <= Len(t)
        /\ t[i] \in AsciiUpper
        /\ t[i + 1] \in AsciiUpper
        /\ \A k \in (i + 2)..j : t[k] \in Whitespace
        /\ t[j + 1] \in AsciiUpper
        /\ t[j + 2] \in AsciiLower

\* text[index].replace(',', '').replace('.', '').isdigit()
NumericShape(t) == isdigit(remove(remove(t, ","), "."))

\* description without its part-number condition
description_digits_only(text, index, previous_extract, current_extract) ==
    <<NumericShape(text[index + 1])>>

description(text, index, previous_extract, current_extract) ==
    <<NumericShape(text[index + 1]), PartNumberShape(text[index + 1])>>

assembled_in(text, index, previous_extract, current_extract) ==
    <<NumericShape(text[index + 1])>>

\* qty_per_country counting every line of the previous field as a country
qty_per_country_by_length(text, index, previous_extract, current_extract) ==
    LET number_of_locations == Len(previous_extract)
        condition_1 == number_of_locations = Len(current_extract)
        condition_2 == Len(previous_extract) > 0 /\ Len(current_extract) > 0
    IN  <<condition_1 /\ condition_2>>

\* qty_per_country without the test that both accumulators are non-empty
qty_per_country_count_only(text, index, previous_extract, current_extract) ==
    LET number_of_locations ==
            Cardinality({i \in 1..Len(previous_extract) :
                            CountryShape(previous_extract[i])})
        condition_1 == number_of_locations = Len(current_extract)
    IN  <<condition_1>>

qty_per_country(text, index, previous_extract, current_extract) ==
    LET number_of_locations ==
            Cardinality({i \in 1..Len(previous_extract) :
                            CountryShape(previous_extract[i])})
        condition_1 == number_of_locations = Len(current_extract)
        condition_2 == Len(previous_extract) > 0 /\ Len(current_extract) > 0
    IN  <<condition_1 /\ condition_2>>

\* InvoiceTextPatterns(...).run(): the classifier looked up by field name,
\* any() of its conditions
run(field, text, index, previous_extract, current_extract) ==
    LET result_set ==
            IF field.name = S_Description
            THEN description(text, index, previous_extract, current_extract)
            ELSE IF field.name = S_AssembledIn
            THEN assembled_in(text, index, previous_extract, current_extract)
            ELSE qty_per_country(text, index, previous_extract, current_extract)
    IN  \E i \in 1..Len(result_set) : result_set[i]

SingleLine(n) == [name |-> n, multi_line |-> FALSE, join_string |-> <<" ">>]

MultiLine(n, sep) == [name |-> n, multi_line |-> TRUE, join_string |-> sep]

field_definitions ==
    << SingleLine(S_Line),
       SingleLine(S_MarketingPartNumber),
       MultiLine(S_Description, <<" ">>),
       SingleLine(S_ComprisingManufacturingPartNo),
       MultiLine(S_AssembledIn, <<",", " ">>),
       MultiLine(S_QtyPerCountry, <<",", " ">>),
       SingleLine(S_ShippedQty),
       SingleLine(S_UnitPrice),
       SingleLine(S_LineTotal) >>

(***************************************************************************)
(* parse_invoice_text, one step per loop iteration.  Each step operator    *)
(* gives the set of frames that follow frame s by that step: empty when    *)
(* the step is not the one the code takes from s.                          *)
(***************************************************************************)

\* the frame on entry; taken is a history field the code does not hold: the
\* tokens each field handled so far has consumed, in schema order
parse_call(matched_text) ==
    [ pc |-> "start",
      matched_text |-> matched_text,
      values |-> <<>>,
      value_index |-> 0,
      fi |-> 1,
      result |-> <<>>,
      prev_multi_line_parts |-> <<>>,
      current_multi_line_parts |-> <<>>,
      taken |-> <<>>,
      ret |-> NoneVal ]

\* lines = [line.strip() for line in matched_text.split('\n') if line.strip()]
clean_lines(matched_text) ==
    LET raw == split(matched_text, NL)
    IN  SelectSeq([i \in 1..Len(raw) |-> strip(raw[i])], LAMBDA l : l # <<>>)

\* lines.index(x) where x occurs
index(lines, x) ==
    (CHOOSE i \in 1..Len(lines) :
        lines[i] = x /\ \A j \in 1..(i - 1) : lines[j] # x) - 1

\* ParseNoLineTotal returning a mapping of nulls instead of None
ParseNoLineTotal_partial(s) ==
    LET lines == clean_lines(s.matched_text)
    IN  IF s.pc = "start" /\ ~(\E i \in 1..Len(lines) : lines[i] = S_LineTotal)
        THEN {[s EXCEPT !.pc = "returned",
                        !.ret = [i \in 1..Len(field_definitions) |->
                                    <<field_definitions[i].name, NoneVal>>]]}
        ELSE {}

\* 'Line Total' is no line: lines.index raises ValueError, return None
ParseNoLineTotal(s) ==
    LET lines == clean_lines(s.matched_text)
    IN  IF s.pc = "start" /\ ~(\E i \in 1..Len(lines) : lines[i] = S_LineTotal)
        THEN {[s EXCEPT !.pc = "returned", !.ret = NoneVal]}
        ELSE {}

\* values = lines[lines.index('Line Total') + 1:]
ParseValues(s) ==
    LET lines == clean_lines(s.matched_text)
    IN  IF s.pc = "start" /\ (\E i \in 1..Len(lines) : lines[i] = S_LineTotal)
        THEN LET value_start == index(lines, S_LineTotal) + 1
             IN  {[s EXCEPT !.pc = "field",
                            !.values = SubSeq(lines, value_start + 1, Len(lines))]}
        ELSE {}

\* the exhaustion test off by one: value_index > len(values)
Exhausted_off_by_one(s) == s.value_index > Len(s.values)

\* if value_index >= len(values)
Exhausted(s) == s.value_index >= Len(s.values)

AtField(s) == s.pc = "field" /\ s.fi <= Len(field_definitions)

\* result[field['name']] = None; continue
FieldNull(s) ==
    IF AtField(s) /\ Exhausted(s)
    THEN {[s EXCEPT !.result = DictSet(@, field_definitions[s.fi].name, NoneVal),
                    !.taken = Append(@, <<>>),
                    !.fi = @ + 1]}
    ELSE {}

\* FieldSingle that assigns the token and leaves the cursor where it was
FieldSingle_no_advance(s) ==
    IF AtField(s) /\ ~Exhausted(s) /\ ~field_definitions[s.fi].multi_line
    THEN {[s EXCEPT !.result = DictSet(@, field_definitions[s.fi].name,
                                       s.values[s.value_index + 1]),
                    !.taken = Append(@, <<s.values[s.value_index + 1]>>),
                    !.fi = @ + 1]}
    ELSE {}

\* result[field['name']] = values[value_index]; value_index += 1
\* (subscripting past the end of a list raises IndexError)
FieldSingle(s) ==
    IF AtField(s) /\ ~Exhausted(s) /\ ~field_definitions[s.fi].multi_line
    THEN IF s.value_index < Len(s.values)
         THEN {[s EXCEPT !.result = DictSet(@, field_definitions[s.fi].name,
                                            s.values[s.value_index + 1]),
                         !.value_index = @ + 1,
                         !.taken = Append(@, <<s.values[s.value_index + 1]>>),
                         !.fi = @ + 1]}
         ELSE {[s EXCEPT !.pc = "raised", !.ret = IndexError]}
    ELSE {}

\* current_multi_line_parts = []
FieldMulti(s) ==
    IF AtField(s) /\ ~Exhausted(s) /\ field_definitions[s.fi].multi_line
    THEN {[s EXCEPT !.pc = "while", !.current_multi_line_parts = <<>>]}
    ELSE {}

Stop(s) ==
    run(field_definitions[s.fi], s.values, s.value_index,
        s.prev_multi_line_parts, s.current_multi_line_parts)

\* current_multi_line_parts.append(values[value_index]); value_index += 1
WhileConsume(s) ==
    IF s.pc = "while" /\ s.value_index < Len(s.values) /\ ~Stop(s)
    THEN {[s EXCEPT !.current_multi_line_parts = Append(@, s.values[s.value_index + 1]),
                    !.value_index = @ + 1]}
    ELSE {}

\* EndMulti that forgets prev_multi_line_parts = current_multi_line_parts
EndMulti_keeps_prev(s) ==
    [s EXCEPT !.result = DictSet(@, field_definitions[s.fi].name,
                                 join(field_definitions[s.fi].join_string,
                                      s.current_multi_line_parts)),
              !.taken = Append(@, s.current_multi_line_parts),
              !.fi = @ + 1,
              !.pc = "field"]

\* after the while loop: join, store, keep the accumulator as the previous one
EndMulti(s) ==
    [s EXCEPT !.result = DictSet(@, field_definitions[s.fi].name,
                                 join(field_definitions[s.fi].join_string,
                                      s.current_multi_line_parts)),
              !.prev_multi_line_parts = s.current_multi_line_parts,
              !.taken = Append(@, s.current_multi_line_parts),
              !.fi = @ + 1,
              !.pc = "field"]

\* WhileBreak that consumes the token it stopped on
WhileBreak_consumes(s) ==
    IF s.pc = "while" /\ s.value_index < Len(s.values) /\ Stop(s)
    THEN {EndMulti([s EXCEPT !.current_multi_line_parts =
                                 Append(@, s.values[s.value_index + 1]),
                             !.value_index = @ + 1])}
    ELSE {}

\* the classifier signals stop: break
WhileBreak(s) ==
    IF s.pc = "while" /\ s.value_index < Len(s.values) /\ Stop(s)
    THEN {EndMulti(s)}
    ELSE {}

\* the while condition fails: the stream is exhausted
WhileExhausted(s) ==
    IF s.pc = "while" /\ ~(s.value_index < Len(s.values))
    THEN {EndMulti(s)}
    ELSE {}

\* return result
ParseReturn(s) ==
    IF s.pc = "field" /\ s.fi > Len(field_definitions)
    THEN {[s EXCEPT !.pc = "returned", !.ret = s.result]}
    ELSE {}

ParseSteps(s) ==
    ParseNoLineTotal(s) \cup ParseValues(s) \cup FieldNull(s) \cup FieldSingle(s)
        \cup FieldMulti(s) \cup WhileConsume(s) \cup WhileBreak(s)
        \cup WhileExhausted(s) \cup ParseReturn(s)

\* the frame in which the call ends
RECURSIVE parse_run(_)
parse_run(s) ==
    IF s.pc \in {"returned", "raised"} THEN s
    ELSE parse_run(CHOOSE t \in ParseSteps(s) : TRUE)

parse_invoice_text(matched_text) == parse_run(parse_call(matched_text))

(***************************************************************************)
(* KeyItem and KeyItemCollection                                           *)
(***************************************************************************)

\* KeyItem.__post_init__ accepts the key
KeyAccepted(key) == islower(key) /\ ~(\E i \in 1..Len(key) : key[i] = " ")

\* a KeyItem as constructed (data_type and file_name are never read)
KeyItem(key, search_text) ==
    [key |-> key, search_text |-> search_text, result |-> NoneVal]

\* any(existing.key == key for existing in self.items)
HasKey(items, key) == \E i \in 1..Len(items) : items[i].key = key

\* KeyItemCollection.__getitem__: the position of the first item with the key
getitem(items, key) ==
    CHOOSE i \in 1..Len(items) :
        items[i].key = key /\ \A j \in 1..(i - 1) : items[j].key # key

\* KeyItemCollection.update_result, the key being present
update_result(items, key, value) ==
    [items EXCEPT ![getitem(items, key)].result = value]

\* KeyItemCollection.search_texts
search_texts(items) == [i \in 1..Len(items) |-> items[i].search_text]

S_gross_weight == <<"g","r","o","s","s","-","w","e","i","g","h","t">>
S_comm_inv_no == <<"c","o","m","m","-","i","n","v","-","n","o">>
S_GrossWeight == <<"G","r","o","s","s"," ","W","e","i","g","h","t">>
S_CommInvNo == <<"C","o","m","m"," ","I","n","v"," ","N","o">>

\* the collection both applications construct
AppCollection ==
    << KeyItem(S_gross_weight, S_GrossWeight), KeyItem(S_comm_inv_no, S_CommInvNo) >>

(***************************************************************************)
(* process_key_value_pairs, one step per line                              *)
(***************************************************************************)

\* search_mapping = {item.search_text: item.key for item in collection.items}
RECURSIVE make_search_mapping(_)
make_search_mapping(items) ==
    IF items = <<>> THEN <<>>
    ELSE DictSet(make_search_mapping(SubSeq(items, 1, Len(items) - 1)),
                 items[Len(items)].search_text, items[Len(items)].key)

\* the lines the two nested loops visit: every page's split('\n'), in order
RECURSIVE all_lines(_)
all_lines(text_pages) ==
    IF text_pages = <<>> THEN <<>>
    ELSE split(Head(text_pages), NL) \o all_lines(Tail(text_pages))

\* the frame on entry; items is the collection the call mutates
kv_call(text_pages, items, search_mapping) ==
    [ pc |-> "loop",
      text_pages |-> text_pages,
      lines |-> all_lines(text_pages),
      i |-> 0,
      key_found |-> NoneVal,
      search_mapping |-> search_mapping,
      items |-> items ]

\* truth value of key_found: None and '' are false
Truthy(x) == x # NoneVal /\ x # <<>>

AtLine(s) == s.pc = "loop" /\ s.i < Len(s.lines)

clean_line(s) == strip(s.lines[s.i + 1])

\* KvAssign that forgets del search_mapping[key_found]
KvAssign_keeps_label(s) ==
    IF AtLine(s) /\ Truthy(s.key_found)
    THEN LET key == DictGet(s.search_mapping, s.key_found)
         IN  {[s EXCEPT !.items = update_result(@, key, clean_line(s)),
                        !.key_found = NoneVal,
                        !.i = @ + 1]}
    ELSE {}

\* if key_found: update_result, del search_mapping[key_found], continue
KvAssign(s) ==
    IF AtLine(s) /\ Truthy(s.key_found)
    THEN LET key == DictGet(s.search_mapping, s.key_found)
         IN  IF HasKey(s.items, key)
             THEN {[s EXCEPT !.items = update_result(@, key, clean_line(s)),
                             !.search_mapping = DictDel(@, s.key_found),
                             !.key_found = NoneVal,
                             !.i = @ + 1]}
             ELSE {[s EXCEPT !.pc = "raised"]}
    ELSE {}

\* if clean_line in search_mapping: key_found = clean_line
KvLabel(s) ==
    IF AtLine(s) /\ ~Truthy(s.key_found) /\ DictHas(s.search_mapping, clean_line(s))
    THEN {[s EXCEPT !.key_found = clean_line(s), !.i = @ + 1]}
    ELSE {}

\* any other line
KvSkip(s) ==
    IF AtLine(s) /\ ~Truthy(s.key_found) /\ ~DictHas(s.search_mapping, clean_line(s))
    THEN {[s EXCEPT !.i = @ + 1]}
    ELSE {}

\* both loops are over
KvReturn(s) ==
    IF s.pc = "loop" /\ ~(s.i < Len(s.lines))
    THEN {[s EXCEPT !.pc = "returned"]}
    ELSE {}

KvSteps(s) == KvAssign(s) \cup KvLabel(s) \cup KvSkip(s) \cup KvReturn(s)

RECURSIVE kv_run(_)
kv_run(s) ==
    IF s.pc \in {"returned", "raised"} THEN s
    ELSE kv_run(CHOOSE t \in KvSteps(s) : TRUE)

\* the frame in which process_key_value_pairs ends
process_key_value_pairs(text_pages, items, search_mapping) ==
    kv_run(kv_call(text_pages, items, search_mapping))

(***************************************************************************)
(* extract_invoice_body, process_single_pdf                                *)
(***************************************************************************)

\* pat occurs in text at position i
OccursAt(text, pat, i) ==
    /\ i + Len(pat) - 1 <= Len(text)
    /\ SubSeq(text, i, i + Len(pat) - 1) = pat

Least(S) == CHOOSE x \in S : \A y \in S : x <= y

\* re.search(r'(Line.*?)License:', page_text, re.DOTALL): group(1) of the
\* leftmost match, the shortest from its start; None when nothing matches
search_body(page_text) ==
    LET ends(i) == {j \in (i + Len(S_Line))..Len(page_text) :
                       OccursAt(page_text, S_License, j)}
        starts == {i \in 1..Len(page_text) :
                      OccursAt(page_text, S_Line, i) /\ ends(i) # {}}
    IN  IF starts = {} THEN NoneVal
        ELSE SubSeq(page_text, Least(starts), Least(ends(Least(starts))) - 1)

\* the frame of a call that returns None at once
ReturnsNone == [pc |-> "returned", ret |-> NoneVal]

\* the first page with a match decides; the frame in which the call ends
RECURSIVE extract_invoice_body(_)
extract_invoice_body(text_pages) ==
    IF text_pages = <<>> THEN ReturnsNone
    ELSE IF search_body(Head(text_pages)) # NoneVal
    THEN parse_invoice_text(search_body(Head(text_pages)))
    ELSE extract_invoice_body(Tail(text_pages))

\* process_single_pdf on a document [opens, extracts, pages]: fitz.open or
\* get_text may raise, and so may anything inside the try; every exception
\* is caught.  Gives the returned dict and the collection as the call leaves it.
process_single_pdf(document, items) ==
    IF ~document.opens \/ ~document.extracts
    THEN [results |-> <<>>, items |-> items]
    ELSE LET kv == process_key_value_pairs(document.pages, items,
                                           make_search_mapping(items))
             body == extract_invoice_body(document.pages)
         IN  IF kv.pc = "raised" \/ body.pc = "raised"
             THEN [results |-> <<>>, items |-> kv.items]
             ELSE [results |-> DictUpdate(<<>>, IF body.ret = NoneVal
                                                THEN <<>>
                                                ELSE body.ret),
                   items |-> kv.items]

(***************************************************************************)
(* process_zip_archive                                                     *)
(***************************************************************************)

\* is_pdf without lower(): the suffix test is case-sensitive
is_pdf_case_sensitive(filename) == endswith(filename, S_dotpdf)

\* file_info.filename.lower().endswith('.pdf')
is_pdf(filename) == endswith(lower(filename), S_dotpdf)

\* total_files = len(pdf_files) + 1
total_files(infolist) ==
    Len(SelectSeq(infolist, LAMBDA file_info : is_pdf(file_info.filename))) + 1

\* {'filename': ..., **{item.key: item.result ...}, **invoice_data}
RECURSIVE item_results(_)
item_results(items) ==
    IF items = <<>> THEN <<>>
    ELSE DictSet(item_results(SubSeq(items, 1, Len(items) - 1)),
                 items[Len(items)].key, items[Len(items)].result)

document_results(filename, items, data) ==
    DictUpdate(DictUpdate(<< <<S_filename, filename>> >>, item_results(items)), data)

\* for item in collection.items: item.result = None
reset_results(items) == [i \in 1..Len(items) |-> [items[i] EXCEPT !.result = NoneVal]]

(***************************************************************************)
(* Inputs of the segmenter                                                 *)
(***************************************************************************)

T_1 == <<"1">>
T_MKT == <<"M","K","T","-","0","0","1">>
T_Widget == <<"W","i","d","g","e","t"," ","A","s","s","e","m","b","l","y">>
T_PartNo == <<"1","2","3","4","5","6","7","-","8","9","0","1","2","3">>
T_CN == <<"C","N"," ","C","h","i","n","a">>
T_US == <<"U","S"," ","U","n","i","t","e","d"," ","S","t","a","t","e","s">>
T_10 == <<"1","0">>
T_100 == <<"1","0","0",".","0","0">>
T_1000 == <<"1",",","0","0","0",".","0","0">>

\* Example A of the specification
ExampleA == <<T_1, T_MKT, T_Widget, T_PartNo, T_CN, T_10, T_CN, T_10, T_100, T_1000>>

\* one token of each shape the classifiers tell apart
Alphabet == {T_10, T_1000, T_PartNo, T_CN, T_Widget}

\* longest enumerated tail of a value stream
MaxTail == 4

Tails == UNION {[1..k -> Alphabet] : k \in 0..MaxTail}

\* fixed beginnings, so that the tail reaches every field of the schema
Heads ==
    { <<>>,
      <<T_1, T_MKT>>,
      <<T_1, T_MKT, T_Widget, T_PartNo>>,
      <<T_1, T_MKT, T_Widget, T_PartNo, T_CN>> }

\* nine tokens, one per field
NineTokens ==
    { <<t1, T_MKT, t3, t4, t5, t6, t7, T_100, t9>> :
        t1 \in {T_1, T_Widget}, t3 \in {T_Widget, T_MKT, T_CN},
        t4 \in {T_PartNo, T_10, T_Widget}, t5 \in {T_CN, T_US, T_Widget},
        t6 \in {T_10, T_1000, T_CN}, t7 \in {T_10, T_CN}, t9 \in {T_1000, T_Widget} }

Streams == {h \o t : h \in Heads, t \in Tails} \cup {ExampleA} \cup NineTokens

\* header lines as extracted: padded, with a blank line
HeaderLines == <<S_Line, <<" ">>, S_Description, <<" ">> \o S_LineTotal \o <<" ", " ">>>>

\* header lines of a span that holds no 'Line Total' line
HeaderLinesNoTotal == <<S_Line, S_Description, S_LineTotal \o <<":">>>>

\* the text of a body span: its lines, each ended by a line break
BodyText(header, stream) == join(<<NL>>, header \o stream) \o <<NL>>

SegTexts ==
    {BodyText(HeaderLines, v) : v \in Streams}
        \cup {BodyText(HeaderLinesNoTotal, v) : v \in NineTokens \cup {<<>>, ExampleA}}

(***************************************************************************)
(* Specification of one call of parse_invoice_text                         *)
(***************************************************************************)

segIdle == <<scan, collection, error, archive, idx, batch_pc, invoice_data,
             results, progress_calls, has_callback, collection0,
      construction, workers, invoice_body>>

InitSeg ==
    /\ invoice_body = <<>>
    /\ construction = NoneVal
    /\ workers = <<>>
    /\ seg \in {parse_call(text) : text \in SegTexts}
    /\ scan = <<>>
    /\ collection = <<>>
    /\ error = NoneVal
    /\ archive = <<>>
    /\ idx = 0
    /\ batch_pc = "idle"
    /\ invoice_data = <<>>
    /\ results = <<>>
    /\ progress_calls = <<>>
    /\ has_callback = FALSE
    /\ collection0 = <<>>

SegNoLineTotal == seg' \in ParseNoLineTotal(seg) /\ UNCHANGED segIdle
SegValues == seg' \in ParseValues(seg) /\ UNCHANGED segIdle
SegFieldNull == seg' \in FieldNull(seg) /\ UNCHANGED segIdle
SegFieldSingle == seg' \in FieldSingle(seg) /\ UNCHANGED segIdle
SegFieldMulti == seg' \in FieldMulti(seg) /\ UNCHANGED segIdle
SegWhileConsume == seg' \in WhileConsume(seg) /\ UNCHANGED segIdle
SegWhileBreak == seg' \in WhileBreak(seg) /\ UNCHANGED segIdle
SegWhileExhausted == seg' \in WhileExhausted(seg) /\ UNCHANGED segIdle
SegReturn == seg' \in ParseReturn(seg) /\ UNCHANGED segIdle

NextSeg ==
    \/ SegNoLineTotal
    \/ SegValues
    \/ SegFieldNull
    \/ SegFieldSingle
    \/ SegFieldMulti
    \/ SegWhileConsume
    \/ SegWhileBreak
    \/ SegWhileExhausted
    \/ SegReturn

SpecSeg == InitSeg /\ [][NextSeg]_vars

(***************************************************************************)
(* Properties of the segmenter, checked under SpecSeg                      *)
(***************************************************************************)

\* the schema's field names in order
Names == [i \in 1..Len(field_definitions) |-> field_definitions[i].name]

\* whether some trimmed line of the text is 'Line Total'
HasLineTotal(text) ==
    LET raw == split(text, NL)
    IN  \E i \in 1..Len(raw) : strip(raw[i]) = S_LineTotal

\* the call returned a mapping
Segmented == seg.pc = "returned" /\ seg.ret # NoneVal

RECURSIVE SumLen(_, _)
SumLen(parts, n) == IF n = 0 THEN 0 ELSE SumLen(parts, n - 1) + Len(parts[n])

\* where the cursor stood when the turn of field i came
CursorAt(s, i) == SumLen(s.taken, i - 1)

CountCountries(parts) == Cardinality({i \in 1..Len(parts) : CountryShape(parts[i])})

\* C1 as stated: on Example A parse_invoice_text returns Description
\* "Widget Assembly", Assembled In "CN China" and Line Total "1,000.00".
C1_ExampleA_AsStated ==
    (seg.pc = "returned" /\ seg.values = ExampleA) =>
        /\ DictGet(seg.ret, S_Description) = T_Widget
        /\ DictGet(seg.ret, S_AssembledIn) = T_CN
        /\ DictGet(seg.ret, S_LineTotal) = T_1000

\* C1 amended: on Example A parse_invoice_text returns Description
\* "Widget Assembly" and Assembled In "CN China", but Qty Per Country "10",
\* Shipped Qty "CN China", Unit Price "10" and Line Total "100.00": the
\* cursor stops at 9 and the tenth token "1,000.00" is in no field.
C1_ExampleA ==
    (seg.pc = "returned" /\ seg.values = ExampleA) =>
        /\ seg.ret = << <<S_Line, T_1>>,
                        <<S_MarketingPartNumber, T_MKT>>,
                        <<S_Description, T_Widget>>,
                        <<S_ComprisingManufacturingPartNo, T_PartNo>>,
                        <<S_AssembledIn, T_CN>>,
                        <<S_QtyPerCountry, T_10>>,
                        <<S_ShippedQty, T_CN>>,
                        <<S_UnitPrice, T_10>>,
                        <<S_LineTotal, T_100>> >>
        /\ seg.value_index = Len(ExampleA) - 1

\* Example A has been segmented
C1_Witness == seg.pc = "returned" /\ seg.values = ExampleA /\ seg.ret # NoneVal

\* the case of C2: Qty Per Country is done, the Assembled In accumulator
\* holds n >= 1 country-shaped tokens and at least n tokens stood at the
\* cursor, which was at start, when the turn of Qty Per Country came
C2_Countries == CountCountries(seg.taken[5])

C2_Start == CursorAt(seg, 6)

C2_Case ==
    /\ Len(seg.taken) >= 6
    /\ C2_Countries >= 1
    /\ Len(seg.values) - C2_Start >= C2_Countries

\* C2 as stated: with n >= 1 country-shaped tokens in the Assembled In
\* accumulator and at least n tokens at the cursor, Qty Per Country consumes
\* exactly n tokens and the cursor then rests on the token that becomes
\* Shipped Qty.
C2_QtyTiedToCountries_AsStated ==
    C2_Case =>
        LET n == C2_Countries
            start == C2_Start
        IN  /\ seg.taken[6] = SubSeq(seg.values, start + 1, start + n)
            /\ Len(seg.taken) = 6 => seg.value_index = start + n
            /\ Len(seg.taken) >= 7 =>
                /\ start + n < Len(seg.values)
                /\ DictGet(seg.result, S_ShippedQty) = seg.values[start + n + 1]

\* C2 amended: under the same condition Qty Per Country consumes exactly n
\* tokens; when more than n tokens stood at the cursor it then rests on the
\* token that becomes Shipped Qty, and when exactly n did it rests at the end
\* of the stream and Shipped Qty is null.
C2_QtyTiedToCountries ==
    C2_Case =>
        LET n == C2_Countries
            start == C2_Start
        IN  /\ seg.taken[6] = SubSeq(seg.values, start + 1, start + n)
            /\ Len(seg.taken) = 6 => seg.value_index = start + n
            /\ Len(seg.taken) >= 7 =>
                IF start + n < Len(seg.values)
                THEN DictGet(seg.result, S_ShippedQty) = seg.values[start + n + 1]
                ELSE DictGet(seg.result, S_ShippedQty) = NoneVal

\* two countries, two quantity lines, and a token left for Shipped Qty
C2_Witness ==
    /\ seg.pc = "returned"
    /\ Len(seg.taken) >= 7
    /\ CountCountries(seg.taken[5]) = 2
    /\ Len(seg.taken[6]) = 2
    /\ Len(seg.taken[7]) = 1

\* C4: whatever the value stream, empty included, parse_invoice_text never
\* raises and is never stuck before it returns; it returns a mapping with the
\* nine schema names; a field whose turn comes with the cursor at the end of
\* the stream is null, and after a null field every later field is null.
C4_ExhaustionNullsTail ==
    /\ seg.pc # "raised"
    /\ seg.pc # "returned" => Cardinality(ParseSteps(seg)) = 1
    /\ (seg.pc = "returned" /\ HasLineTotal(seg.matched_text)) =>
          seg.ret # NoneVal /\ DictKeys(seg.ret) = Names
    /\ \A i \in 1..Len(seg.taken) :
          CursorAt(seg, i) >= Len(seg.values) =>
              DictGet(seg.result, Names[i]) = NoneVal
    /\ \A i \in 1..Len(seg.taken) : \A j \in i..Len(seg.taken) :
          DictGet(seg.result, Names[i]) = NoneVal =>
              DictGet(seg.result, Names[j]) = NoneVal

\* a stream that ends inside the schema: Line is set, Line Total is null
C4_Witness ==
    /\ Segmented
    /\ DictGet(seg.ret, S_Line) # NoneVal
    /\ DictGet(seg.ret, S_QtyPerCountry) # NoneVal
    /\ DictGet(seg.ret, S_ShippedQty) = NoneVal
    /\ DictGet(seg.ret, S_LineTotal) = NoneVal

\* the precondition of C5: nine tokens, t3 no Description stop, t4 a
\* Description stop, t5 a country and no Assembled In stop, t6 numeric
C5_Unambiguous(v) ==
    /\ Len(v) = Len(field_definitions)
    /\ ~NumericShape(v[3]) /\ ~PartNumberShape(v[3])
    /\ NumericShape(v[4]) \/ PartNumberShape(v[4])
    /\ CountryShape(v[5]) /\ ~NumericShape(v[5])
    /\ NumericShape(v[6])

\* C5: an unambiguous stream of exactly nine tokens is returned as the nine
\* schema fields in schema order, field i being token i verbatim.
C5_RoundTrip ==
    (seg.pc = "returned" /\ C5_Unambiguous(seg.values)) =>
        seg.ret = [i \in 1..Len(field_definitions) |-> <<Names[i], seg.values[i]>>]

\* an unambiguous nine-token stream has been segmented
C5_Witness ==
    /\ Segmented
    /\ C5_Unambiguous(seg.values)
    /\ seg.values[3] = T_CN
    /\ seg.values[4] = T_10

(***************************************************************************)
(* Specification of one call of process_key_value_pairs on the             *)
(* applications' collection                                                *)
(***************************************************************************)

\* raw lines of a page: a label, a padded label, a padded value, a blank line
ScanLines ==
    { S_GrossWeight,
      <<" ">> \o S_CommInvNo \o <<" ">>,
      <<" ", "5", " ", "k", "g">>,
      <<>> }

\* most lines of one document
MaxLines == 4

PageLines == UNION {[1..k -> ScanLines] : k \in 1..MaxLines}

\* documents of no page, one page or two pages
ScanDocuments ==
    {<<>>}
        \cup {<<join(<<NL>>, p)>> : p \in PageLines}
        \cup {<<join(<<NL>>, p), join(<<NL>>, q)>> :
                 <<p, q>> \in {pq \in PageLines \X PageLines :
                                  Len(pq[1]) + Len(pq[2]) <= MaxLines}}

scanIdle == <<seg, collection, error, archive, idx, batch_pc, invoice_data,
              results, progress_calls, has_callback, collection0,
      construction, workers, invoice_body>>

InitScan ==
    /\ invoice_body = <<>>
    /\ construction = NoneVal
    /\ workers = <<>>
    /\ scan \in {kv_call(d, AppCollection, make_search_mapping(AppCollection)) :
                    d \in ScanDocuments}
    /\ seg = <<>>
    /\ collection = <<>>
    /\ error = NoneVal
    /\ archive = <<>>
    /\ idx = 0
    /\ batch_pc = "idle"
    /\ invoice_data = <<>>
    /\ results = <<>>
    /\ progress_calls = <<>>
    /\ has_callback = FALSE
    /\ collection0 = <<>>

ScanAssign == scan' \in KvAssign(scan) /\ UNCHANGED scanIdle
ScanLabel == scan' \in KvLabel(scan) /\ UNCHANGED scanIdle
ScanSkip == scan' \in KvSkip(scan) /\ UNCHANGED scanIdle
ScanReturn == scan' \in KvReturn(scan) /\ UNCHANGED scanIdle

NextScan ==
    \/ ScanAssign
    \/ ScanLabel
    \/ ScanSkip
    \/ ScanReturn

SpecScan == InitScan /\ [][NextScan]_vars

(***************************************************************************)
(* Properties of the scanner, checked under SpecScan                       *)
(***************************************************************************)

\* the trimmed lines of the document, in page order, then line order
DocLines == [i \in 1..Len(scan.lines) |-> strip(scan.lines[i])]

Labels == {scan.items[k].search_text : k \in 1..Len(scan.items)}

\* line i is read as a label: it equals a label, it is not the value line of
\* a label line right before it, and its label was not read (and so
\* consumed) earlier
RECURSIVE ReadAsLabel(_, _, _)
ReadAsLabel(L, labels, i) ==
    /\ L[i] \in labels
    /\ ~(i > 1 /\ ReadAsLabel(L, labels, i - 1))
    /\ ~(\E j \in 1..(i - 2) : L[j] = L[i] /\ ReadAsLabel(L, labels, j))

\* C6 as stated: after the scan every item's result is the trimmed line right
\* after the first line equal to its label, and it is null exactly when no
\* line of the document equals the label.
C6_FirstLabelLine_AsStated ==
    scan.pc = "returned" =>
        \A k \in 1..Len(scan.items) :
            LET label == scan.items[k].search_text
                occ == {i \in 1..Len(DocLines) : DocLines[i] = label}
            IN  /\ (occ = {}) <=> (scan.items[k].result = NoneVal)
                /\ \A i \in occ :
                      ((\A j \in occ : i <= j) /\ i < Len(DocLines)) =>
                          scan.items[k].result = DocLines[i + 1]

\* C6 amended: at every point of the scan an item's result is the trimmed
\* line right after the first line read as its label whose following line
\* has been visited, and null when there is no such line; a line right after
\* a line read as a label is that label's value and is never read as a label
\* itself, and a label read as the last line of the document gets no value.
\* Later occurrences of a label never change the result.
C6_FirstLabelLine ==
    \A k \in 1..Len(scan.items) :
        LET label == scan.items[k].search_text
            L == DocLines
            hits == {i \in 1..(Len(L) - 1) :
                        /\ i + 1 <= scan.i
                        /\ L[i] = label
                        /\ ReadAsLabel(L, Labels, i)}
        IN  IF hits = {}
            THEN scan.items[k].result = NoneVal
            ELSE \E h \in hits :
                    /\ \A g \in hits : h <= g
                    /\ scan.items[k].result = L[h + 1]

\* the first line equal to a label was the value of another label, a later
\* one was read as the label, and the result is the line after the later one
C6_Witness ==
    /\ scan.pc = "returned"
    /\ \E k \in 1..Len(scan.items) :
        \E i \in 1..Len(DocLines) : \E j \in 1..(Len(DocLines) - 1) :
            /\ i < j
            /\ DocLines[i] = scan.items[k].search_text
            /\ \A g \in 1..(i - 1) : DocLines[g] # DocLines[i]
            /\ ~ReadAsLabel(DocLines, Labels, i)
            /\ DocLines[j] = scan.items[k].search_text
            /\ ReadAsLabel(DocLines, Labels, j)
            /\ scan.items[k].result = DocLines[j + 1]
            /\ DocLines[j + 1] # DocLines[i + 1]

(***************************************************************************)
(* Specification of process_zip_archive on the applications' collection    *)
(***************************************************************************)

Page(lines) == join(<<NL>>, lines)

V_5kg == <<"5"," ","k","g">>
V_7kg == <<"7"," ","k","g">>
V_INV12 == <<"I","N","V","-","1","-","2">>
V_INV9 == <<"I","N","V","-","9">>
V_stale == <<"s","t","a","l","e">>

Document(pages) == [opens |-> TRUE, extracts |-> TRUE, pages |-> pages]

\* both labels on page 1, a body of nine values on page 2
DocFull ==
    Document(<< Page(<<S_GrossWeight, V_5kg, S_CommInvNo, V_INV12>>),
                Page(<<S_Line, S_Description, S_LineTotal, T_1, T_MKT, T_Widget,
                       T_PartNo, T_CN, T_10, T_10, T_100, T_1000,
                       S_License \o <<" ", "X">>>>) >>)

\* one label and a body span in which 'Line Total' is only part of a line
DocNoTotal ==
    Document(<< Page(<<S_GrossWeight, V_7kg, S_Line, S_Description,
                       S_LineTotal \o <<" ", "U", "S", "D">>, T_1, T_MKT,
                       S_License>>) >>)

\* one label and no body span
DocNoSpan == Document(<< Page(<<S_CommInvNo, V_INV9>>) >>)

\* fitz.open raises
DocBroken == [opens |-> FALSE, extracts |-> FALSE, pages |-> <<>>]

\* page.get_text() raises
DocUnreadablePage == [opens |-> TRUE, extracts |-> FALSE, pages |-> <<>>]

Entry(filename, document) ==
    [filename |-> filename, readable |-> TRUE, document |-> document]

\* archive members; readable is false for a member zip_ref.open or
\* file.read() raises on
Entries ==
    { Entry(<<"a",".","p","d","f">>, DocFull),
      Entry(<<"B",".","P","D","F">>, DocNoTotal),
      Entry(<<"c",".","P","d","f">>, DocBroken),
      Entry(<<"d",".","p","d","f">>, DocUnreadablePage),
      Entry(<<"e",".","p","d","f">>, DocNoSpan),
      Entry(<<"n",".","t","x","t">>, DocFull),
      Entry(<<"p","d","f">>, DocFull),
      [filename |-> <<"z",".","p","d","f">>, readable |-> FALSE, document |-> DocBroken] }

\* most members of an archive
MaxEntries == 2

Archives == UNION {[1..k -> Entries] : k \in 0..MaxEntries}

\* the collection as passed in: fresh, or with results left from earlier use
Collections ==
    { AppCollection,
      [i \in 1..Len(AppCollection) |-> [AppCollection[i] EXCEPT !.result = V_stale]] }

batchIdle == <<seg, scan, error, construction, workers, invoice_body>>

InitBatch ==
    /\ invoice_body = <<>>
    /\ construction = NoneVal
    /\ workers = <<>>
    /\ archive \in Archives
    /\ collection \in Collections
    /\ collection0 = collection
    /\ has_callback \in BOOLEAN
    /\ idx = 0
    /\ batch_pc = "loop"
    /\ invoice_data = <<>>
    /\ results = <<>>
    /\ progress_calls = <<>>
    /\ seg = <<>>
    /\ scan = <<>>
    /\ error = NoneVal

\* for idx, file_info in enumerate(zip_ref.infolist(), start=1): not a PDF
BatchSkip ==
    /\ batch_pc = "loop"
    /\ idx < Len(archive)
    /\ ~is_pdf(archive[idx + 1].filename)
    /\ idx' = idx + 1
    /\ UNCHANGED <<archive, collection, collection0, has_callback, batch_pc,
                   invoice_data, results, progress_calls, batchIdle>>

\* the next entry is a PDF
BatchEnter ==
    /\ batch_pc = "loop"
    /\ idx < Len(archive)
    /\ is_pdf(archive[idx + 1].filename)
    /\ idx' = idx + 1
    /\ batch_pc' = "process"
    /\ UNCHANGED <<archive, collection, collection0, has_callback,
                   invoice_data, results, progress_calls, batchIdle>>

\* zip_ref.open or file.read() raises: nothing catches it
BatchReadRaises ==
    /\ batch_pc = "process"
    /\ ~archive[idx].readable
    /\ batch_pc' = "raised"
    /\ UNCHANGED <<archive, collection, collection0, has_callback, idx,
                   invoice_data, results, progress_calls, batchIdle>>

\* invoice_data = process_single_pdf(pdf_data, collection)
BatchProcess ==
    /\ batch_pc = "process"
    /\ archive[idx].readable
    /\ LET r == process_single_pdf(archive[idx].document, collection)
       IN  /\ invoice_data' = r.results
           /\ collection' = r.items
    /\ batch_pc' = "combine"
    /\ UNCHANGED <<archive, collection0, has_callback, idx, results,
                   progress_calls, batchIdle>>

\* results.append(document_results)
BatchAppend ==
    /\ batch_pc = "combine"
    /\ results' = Append(results, document_results(archive[idx].filename,
                                                   collection, invoice_data))
    /\ batch_pc' = "reset"
    /\ UNCHANGED <<archive, collection, collection0, has_callback, idx,
                   invoice_data, progress_calls, batchIdle>>

\* BatchReset that leaves the results as they are
BatchReset_forgotten ==
    /\ batch_pc = "reset"
    /\ batch_pc' = "progress"
    /\ UNCHANGED <<archive, collection, collection0, has_callback, idx,
                   invoice_data, results, progress_calls, batchIdle>>

\* for item in collection.items: item.result = None
BatchReset ==
    /\ batch_pc = "reset"
    /\ collection' = reset_results(collection)
    /\ batch_pc' = "progress"
    /\ UNCHANGED <<archive, collection0, has_callback, idx, invoice_data,
                   results, progress_calls, batchIdle>>

\* progress_callback(idx, total_files)
BatchProgress ==
    /\ batch_pc = "progress"
    /\ has_callback
    /\ progress_calls' = Append(progress_calls, <<idx, total_files(archive)>>)
    /\ batch_pc' = "loop"
    /\ UNCHANGED <<archive, collection, collection0, has_callback, idx,
                   invoice_data, results, batchIdle>>

\* no progress_callback was given
BatchNoProgress ==
    /\ batch_pc = "progress"
    /\ ~has_callback
    /\ batch_pc' = "loop"
    /\ UNCHANGED <<archive, collection, collection0, has_callback, idx,
                   invoice_data, results, progress_calls, batchIdle>>

\* return results
BatchReturn ==
    /\ batch_pc = "loop"
    /\ idx = Len(archive)
    /\ batch_pc' = "returned"
    /\ UNCHANGED <<archive, collection, collection0, has_callback, idx,
                   invoice_data, results, progress_calls, batchIdle>>

NextBatch ==
    \/ BatchSkip
    \/ BatchEnter
    \/ BatchReadRaises
    \/ BatchProcess
    \/ BatchAppend
    \/ BatchReset
    \/ BatchProgress
    \/ BatchNoProgress
    \/ BatchReturn

SpecBatch == InitBatch /\ [][NextBatch]_vars

(***************************************************************************)
(* Properties of process_zip_archive                                       *)
(***************************************************************************)

\* the name ends in a dot and the letters p, d, f in either case
EndsInPdf(filename) ==
    LET n == Len(filename)
    IN  /\ n >= 4
        /\ filename[n - 3] = "."
        /\ filename[n - 2] \in {"p", "P"}
        /\ filename[n - 1] \in {"d", "D"}
        /\ filename[n] \in {"f", "F"}

\* the entries the loop has left behind
Handled ==
    SubSeq(archive, 1,
           IF batch_pc \in {"process", "combine", "raised"} THEN idx - 1 ELSE idx)

\* the PDF entries among them, in archive order
HandledPdfs == SelectSeq(Handled, LAMBDA e : EndsInPdf(e.filename))

\* what each document gives when processed with each collection
Processed ==
    [c \in Collections |-> [e \in Entries |-> process_single_pdf(e.document, c)]]

\* the collection as document k meets it, given that every document before
\* it was followed by a reset
MetBy(k) == IF k = 1 THEN collection0 ELSE AppCollection

\* the body span of the document: group(1) on the first page that matches
RECURSIVE BodySpan(_)
BodySpan(text_pages) ==
    IF text_pages = <<>> THEN NoneVal
    ELSE IF search_body(Head(text_pages)) # NoneVal
    THEN search_body(Head(text_pages))
    ELSE BodySpan(Tail(text_pages))

\* the document is read, has a body span, and no trimmed line of the span
\* is 'Line Total'
NoAnchor(e) ==
    /\ e.document.opens
    /\ e.document.extracts
    /\ BodySpan(e.document.pages) # NoneVal
    /\ ~HasLineTotal(BodySpan(e.document.pages))

\* no body field of the record carries a value
NoBodyValue(record) ==
    \A i \in 1..Len(Names) :
        DictHas(record, Names[i]) => DictGet(record, Names[i]) = NoneVal

\* the record holds the filename and, for every item, the result of the scan
\* of document e by a collection c
HoldsScalars(record, e, c) ==
    /\ DictHas(record, S_filename)
    /\ DictGet(record, S_filename) = e.filename
    /\ \A i \in 1..Len(AppCollection) :
          /\ DictHas(record, AppCollection[i].key)
          /\ DictGet(record, AppCollection[i].key) = Processed[c][e].items[i].result

\* C3: when no trimmed line of a document's body span equals 'Line Total',
\* parse_invoice_text returns None for the span, and the record of that
\* document holds its filename and every scalar scan result while none of
\* the nine body fields carries a value.
C3_NoAnchorNoBody ==
    /\ Len(results) = Len(HandledPdfs)
    /\ \A k \in 1..Len(results) :
          NoAnchor(HandledPdfs[k]) =>
             /\ parse_invoice_text(BodySpan(HandledPdfs[k].document.pages)).pc = "returned"
             /\ parse_invoice_text(BodySpan(HandledPdfs[k].document.pages)).ret = NoneVal
             /\ HoldsScalars(results[k], HandledPdfs[k], MetBy(k))
             /\ NoBodyValue(results[k])

\* C3 witness: the batch returned a record for a document whose span has
\* 'Line Total USD' but no 'Line Total' line; the record has the weight found
\* by the scan and no body field.
C3_Witness ==
    /\ batch_pc = "returned"
    /\ \E k \in 1..Len(results) :
          /\ k <= Len(HandledPdfs)
          /\ NoAnchor(HandledPdfs[k])
          /\ DictGet(results[k], S_gross_weight) = V_7kg
          /\ \A i \in 1..Len(Names) : ~DictHas(results[k], Names[i])

AllNull(items) == \A i \in 1..Len(items) : items[i].result = NoneVal

\* C7: once a record has been appended and the reset after it has run, every
\* result is null until the next document is scanned, also after a document
\* whose extraction raised; and when the collection came in with all results
\* null, the scalars of record k are those a scan of document k alone gives.
C7_ResetBetweenDocuments ==
    /\ (Len(results) >= 1 /\ batch_pc \in {"progress", "loop", "process", "returned", "raised"})
          => AllNull(collection)
    /\ (AllNull(collection0) /\ Len(results) = Len(HandledPdfs))
          => \A k \in 1..Len(results) :
                HoldsScalars(results[k], HandledPdfs[k], AppCollection)

\* C7 witness: the first document gave both scalars, the second raised on
\* open, and the second record has neither value.
C7_Witness ==
    /\ batch_pc = "returned"
    /\ AllNull(collection0)
    /\ Len(results) = 2
    /\ DictGet(results[1], S_gross_weight) = V_5kg
    /\ DictGet(results[1], S_comm_inv_no) = V_INV12
    /\ ~HandledPdfs[2].document.opens
    /\ DictGet(results[2], S_gross_weight) = NoneVal
    /\ DictGet(results[2], S_comm_inv_no) = NoneVal
    /\ AllNull(collection)

Raises(e) == ~e.document.opens \/ ~e.document.extracts

\* C8: the records are, in archive order, exactly those of the entries left
\* behind whose name ends in '.pdf' in either case, so the returned list has
\* one record per such entry of the archive and none for another entry; a
\* document whose open or text extraction raises has its record, with the
\* filename and no body field value.
C8_OneRecordPerPdf ==
    /\ Len(results) = Len(HandledPdfs)
    /\ \A k \in 1..Len(results) :
          /\ DictHas(results[k], S_filename)
          /\ DictGet(results[k], S_filename) = HandledPdfs[k].filename
          /\ Raises(HandledPdfs[k]) => NoBodyValue(results[k])
    /\ batch_pc = "returned" => Handled = archive

\* C8 witness: the archive's first entry has an upper-case suffix, the second
\* raises on text extraction or open, and both have their records.
C8_Witness ==
    /\ batch_pc = "returned"
    /\ Len(archive) = 2
    /\ Len(results) = 2
    /\ ~is_pdf_case_sensitive(archive[1].filename)
    /\ Raises(archive[1]) # Raises(archive[2])
    /\ \E k \in 1..2 : DictHas(results[k], S_LineTotal) /\ DictGet(results[k], S_LineTotal) # NoneVal

\* the PDF entries of the whole archive
NumPdf == Len(SelectSeq(archive, LAMBDA e : EndsInPdf(e.filename)))

\* C9: the callback is called once per processed PDF after its record is
\* appended, the i-th call with (i, number of PDF entries of the archive): the
\* first argument counts the PDFs processed, never exceeds the second, and
\* equals it on the last call.
C9_ProgressCounts_AsStated ==
    has_callback =>
       /\ Len(progress_calls) =
             IF batch_pc \in {"reset", "progress"} THEN Len(results) - 1
             ELSE Len(results)
       /\ \A i \in 1..Len(progress_calls) :
             /\ progress_calls[i][1] = i
             /\ progress_calls[i][2] = NumPdf
             /\ progress_calls[i][1] <= progress_calls[i][2]
       /\ (batch_pc = "returned" /\ progress_calls # <<>>)
             => progress_calls[Len(progress_calls)][1] = progress_calls[Len(progress_calls)][2]

(***************************************************************************)
(* Properties of the cursor of parse_invoice_text                          *)
(***************************************************************************)

\* the tokens of fields 1..n, in schema order
RECURSIVE Concat(_, _)
Concat(parts, n) == IF n = 0 THEN <<>> ELSE Concat(parts, n - 1) \o parts[n]

\* the frame has passed the header and has not raised
Walking(s) == s.pc \in {"field", "while", "returned"}

\* field i has been assigned and the cursor then stood before a token: the
\* while loop of field i ended on a stop signal for that token
StoppedOn(s, i) ==
    /\ Walking(s)
    /\ Len(s.taken) > i
    /\ CursorAt(s, i + 1) < Len(s.values)

\* the token at the cursor when field i had been assigned
StopToken(s, i) == s.values[CursorAt(s, i + 1) + 1]

\* the accumulator of the multi-line field before field i
PreviousParts(s, i) == IF i = 3 THEN <<>> ELSE IF i = 5 THEN s.taken[3] ELSE s.taken[5]

\* the classifier of field i signals stop on the stop token, and the tokens
\* of field i are those from its start up to, not including, that token
StopNotConsumed(s, i) ==
    /\ run(field_definitions[i], s.values, CursorAt(s, i + 1),
           PreviousParts(s, i), s.taken[i])
    /\ s.taken[i] = SubSeq(s.values, CursorAt(s, i) + 1, CursorAt(s, i + 1))

\* C13: the token on which Description stops is not consumed by it and
\* becomes Comprising Manufacturing Part No verbatim; the token on which
\* Assembled In stops becomes the first token of Qty Per Country; the token
\* on which Qty Per Country stops becomes Shipped Qty verbatim.
C13_StopTokenGoesToNextField ==
    /\ StoppedOn(seg, 3) =>
          /\ StopNotConsumed(seg, 3)
          /\ DictGet(seg.result, S_ComprisingManufacturingPartNo) = StopToken(seg, 3)
    /\ StoppedOn(seg, 5) /\ Len(seg.taken) >= 6 =>
          /\ StopNotConsumed(seg, 5)
          /\ seg.taken[6] # <<>>
          /\ seg.taken[6][1] = StopToken(seg, 5)
          /\ DictGet(seg.result, S_QtyPerCountry) = join(<<",", " ">>, seg.taken[6])
    /\ StoppedOn(seg, 6) =>
          /\ StopNotConsumed(seg, 6)
          /\ DictGet(seg.result, S_ShippedQty) = StopToken(seg, 6)

\* C13 witness: a call returned in which Description, Assembled In and Qty
\* Per Country each consumed a token and each ended on a stop signal.
C13_Witness ==
    /\ Segmented
    /\ StoppedOn(seg, 3) /\ StoppedOn(seg, 5) /\ StoppedOn(seg, 6)
    /\ seg.taken[3] # <<>> /\ seg.taken[5] # <<>> /\ seg.taken[6] # <<>>

\* the tokens assigned so far, those of the running while loop included
Assigned(s) ==
    Concat(s.taken, Len(s.taken))
        \o (IF s.pc = "while" THEN s.current_multi_line_parts ELSE <<>>)

\* the value of field i is made of the tokens taken for it
MadeOf(s, i) ==
    LET value == DictGet(s.result, field_definitions[i].name)
    IN  IF field_definitions[i].multi_line
        THEN \/ value = NoneVal /\ s.taken[i] = <<>>
             \/ value = join(field_definitions[i].join_string, s.taken[i])
        ELSE \/ value = NoneVal /\ s.taken[i] = <<>>
             \/ s.taken[i] = <<value>>

\* the cursor is within the stream and the tokens assigned are the prefix
\* of the stream that ends at the cursor
PrefixAssigned(s) ==
    /\ s.value_index \in 0..Len(s.values)
    /\ Assigned(s) = SubSeq(s.values, 1, s.value_index)
    /\ Len(s.taken) <= Len(field_definitions)
    /\ \A i \in 1..Len(s.taken) : MadeOf(s, i)

\* C14: in every step the cursor stays or grows by one, by one exactly when
\* a token is consumed; before and after the step it lies in 0..len(values)
\* and the tokens assigned so far, in schema order, are values[0..cursor),
\* so no token is assigned twice or out of order and the tokens past the
\* cursor at the return are in no field.
C14_CursorAndPrefix ==
    [][ /\ seg.pc # "raised" /\ seg'.pc # "raised"
        /\ PrefixAssigned(seg) /\ PrefixAssigned(seg')
        /\ seg'.value_index - seg.value_index \in {0, 1}
        /\ seg'.value_index - seg.value_index = Len(Assigned(seg')) - Len(Assigned(seg))
      ]_vars

\* C14 witness: a call returned with all nine fields assigned and a token
\* left past the cursor.
C14_Witness ==
    /\ Segmented
    /\ seg.value_index = 9
    /\ seg.value_index < Len(seg.values)
    /\ \A i \in 1..9 : seg.taken[i] # <<>>

\* C15: when the turn of Qty Per Country comes with tokens left and the
\* accumulator of Assembled In holds no country-shaped token, the classifier
\* does not signal stop, Qty Per Country takes every token that is left, and
\* Shipped Qty, Unit Price and Line Total are null.
C15_NoCountryAbsorbsAll ==
    /\ (seg.pc = "while" /\ seg.fi = 6 /\ seg.value_index < Len(seg.values)
            /\ CountCountries(seg.prev_multi_line_parts) = 0)
          => ~Stop(seg)
    /\ (Walking(seg) /\ Len(seg.taken) >= 6 /\ CursorAt(seg, 6) < Len(seg.values)
            /\ CountCountries(seg.taken[5]) = 0)
          => /\ seg.taken[6] = SubSeq(seg.values, CursorAt(seg, 6) + 1, Len(seg.values))
             /\ seg.value_index = Len(seg.values)
             /\ seg.pc = "returned" =>
                   /\ DictGet(seg.ret, S_ShippedQty) = NoneVal
                   /\ DictGet(seg.ret, S_UnitPrice) = NoneVal
                   /\ DictGet(seg.ret, S_LineTotal) = NoneVal

\* C15 witness: Assembled In took one token that is not country-shaped and
\* Qty Per Country took the three tokens left, a country among them.
C15_Witness ==
    /\ Segmented
    /\ Len(seg.taken[5]) = 1
    /\ CountCountries(seg.taken[5]) = 0
    /\ Len(seg.taken[6]) = 3
    /\ CountCountries(seg.taken[6]) > 0
    /\ DictGet(seg.ret, S_ShippedQty) = NoneVal

(***************************************************************************)
(* Specification of KeyItemCollection                                      *)
(***************************************************************************)

ValueError == <<"ValueError">>
KeyError == <<"KeyError">>

\* keys offered to KeyItem(); __post_init__ lets through the accepted ones
OfferedKeys ==
    { S_gross_weight, S_comm_inv_no, S_filename,
      <<"G","r","o","s","s">>, <<"n","e","t"," ","w","t">> }

RegistryKeys == {key \in OfferedKeys : KeyAccepted(key)}

RegistryItems ==
    {KeyItem(key, search_text) : key \in RegistryKeys,
                                 search_text \in {S_GrossWeight, S_CommInvNo}}

\* most items in the list passed to the constructor
MaxInitialItems == 2

\* most items the collection grows to
MaxItems == 3

registryIdle ==
    <<seg, scan, archive, idx, batch_pc, invoice_data, results, progress_calls,
      has_callback, collection0,
      construction, workers, invoice_body>>

\* KeyItemCollection(items): the list is stored as given
InitRegistry ==
    /\ invoice_body = <<>>
    /\ construction = NoneVal
    /\ workers = <<>>
    /\ collection \in UNION {[1..n -> RegistryItems] : n \in 0..MaxInitialItems}
    /\ collection0 = collection
    /\ error = NoneVal
    /\ seg = <<>>
    /\ scan = <<>>
    /\ archive = <<>>
    /\ idx = 0
    /\ batch_pc = "idle"
    /\ invoice_data = <<>>
    /\ results = <<>>
    /\ progress_calls = <<>>
    /\ has_callback = FALSE

\* add_item with a key not yet present
AddItem ==
    \E item \in RegistryItems :
        /\ Len(collection) < MaxItems
        /\ ~HasKey(collection, item.key)
        /\ collection' = Append(collection, item)
        /\ error' = NoneVal
        /\ UNCHANGED registryIdle

\* AddItemDuplicate that appends before it raises
AddItemDuplicate_appends ==
    \E item \in RegistryItems :
        /\ HasKey(collection, item.key)
        /\ Len(collection) < MaxItems
        /\ collection' = Append(collection, item)
        /\ error' = ValueError
        /\ UNCHANGED registryIdle

\* add_item with a key already present raises ValueError
AddItemDuplicate ==
    \E item \in RegistryItems :
        /\ HasKey(collection, item.key)
        /\ error' = ValueError
        /\ UNCHANGED <<collection, registryIdle>>

\* update_result with a key that is present
UpdateResult ==
    \E key \in RegistryKeys, value \in {V_5kg, NoneVal} :
        /\ HasKey(collection, key)
        /\ collection' = update_result(collection, key, value)
        /\ error' = NoneVal
        /\ UNCHANGED registryIdle

\* update_result with an absent key: __getitem__ raises KeyError
UpdateResultMissing ==
    \E key \in RegistryKeys :
        /\ ~HasKey(collection, key)
        /\ error' = KeyError
        /\ UNCHANGED <<collection, registryIdle>>

\* collection[key] with a key that is present
GetItem ==
    \E key \in RegistryKeys :
        /\ HasKey(collection, key)
        /\ error' = NoneVal
        /\ UNCHANGED <<collection, registryIdle>>

\* collection[key] with an absent key raises KeyError
GetItemMissing ==
    \E key \in RegistryKeys :
        /\ ~HasKey(collection, key)
        /\ error' = KeyError
        /\ UNCHANGED <<collection, registryIdle>>

NextRegistry ==
    \/ AddItem
    \/ AddItemDuplicate
    \/ UpdateResult
    \/ UpdateResultMissing
    \/ GetItem
    \/ GetItemMissing

SpecRegistry == InitRegistry /\ [][NextRegistry]_vars

\* C10: in every state reached by constructing a KeyItemCollection with any
\* initial item list and then calling add_item, the keys of the items are
\* pairwise distinct.
C10_KeysDistinct_AsStated ==
    \A i, j \in 1..Len(collection) :
        i # j => collection[i].key # collection[j].key

\* C11: a registry operation that ends in an error (add_item with a key
\* already present, a lookup or an update_result with an absent key) leaves
\* the item sequence and every item's result as they were.
C11_FailedOperationsChangeNothing ==
    [][error' # NoneVal => collection' = collection]_vars

\* C11 witness: a lookup or update of an absent key has just failed on a
\* registry that holds two items, one of them with a result.
C11_Witness ==
    /\ error = KeyError
    /\ Len(collection) = 2
    /\ \E i \in 1..2 : collection[i].result # NoneVal

(***************************************************************************)
(* Specification of one call of KeyItem(key, search_text)                  *)
(***************************************************************************)

\* characters of the keys passed: lower, upper, uncased, space, other whitespace
KeyChars == {"a", "A", "4", "-", " ", "\t"}

\* longest key passed
MaxKeyLen == 2

ConstructKeys == UNION {[1..n -> KeyChars] : n \in 0..MaxKeyLen}

\* the call before __post_init__ runs: the fields are assigned
KeyItem_call(key, search_text) ==
    [pc |-> "post_init", key |-> key, search_text |-> search_text,
     result |-> NoneVal]

constructIdle ==
    <<seg, scan, collection, error, archive, idx, batch_pc, invoice_data,
      results, progress_calls, has_callback, collection0, workers, invoice_body>>

InitConstruct ==
    /\ invoice_body = <<>>
    /\ construction \in {KeyItem_call(key, search_text) :
                            key \in ConstructKeys,
                            search_text \in {S_GrossWeight, S_CommInvNo}}
    /\ seg = <<>>
    /\ scan = <<>>
    /\ collection = <<>>
    /\ collection0 = <<>>
    /\ error = NoneVal
    /\ archive = <<>>
    /\ idx = 0
    /\ batch_pc = "idle"
    /\ invoice_data = <<>>
    /\ results = <<>>
    /\ progress_calls = <<>>
    /\ has_callback = FALSE
    /\ workers = <<>>

\* __post_init__ passes: the item is constructed
PostInitPasses ==
    /\ construction.pc = "post_init"
    /\ KeyAccepted(construction.key)
    /\ construction' = [construction EXCEPT !.pc = "constructed"]
    /\ UNCHANGED constructIdle

\* __post_init__ raises ValueError
PostInitRaises ==
    /\ construction.pc = "post_init"
    /\ ~KeyAccepted(construction.key)
    /\ construction' = [construction EXCEPT !.pc = "raised"]
    /\ UNCHANGED constructIdle

NextConstruct ==
    \/ PostInitPasses
    \/ PostInitRaises

SpecConstruct == InitConstruct /\ [][NextConstruct]_vars

\* a key that str.islower() takes for lowercase: a cased letter, none upper
IsLowercase(key) ==
    /\ \E i \in 1..Len(key) : key[i] \in AsciiLower
    /\ \A i \in 1..Len(key) : key[i] \notin AsciiUpper

HasUppercase(key) == \E i \in 1..Len(key) : key[i] \in AsciiUpper

HasWhitespace(key) == \E i \in 1..Len(key) : key[i] \in Whitespace

\* C12: KeyItem construction succeeds for every key that is lowercase and
\* has no whitespace, and fails for every key that has an uppercase letter
\* or a whitespace character, a space or any other.
C12_KeyValidation_AsStated ==
    construction.pc # "post_init" =>
       /\ (IsLowercase(construction.key) /\ ~HasWhitespace(construction.key))
             => construction.pc = "constructed"
       /\ (HasUppercase(construction.key) \/ HasWhitespace(construction.key))
             => construction.pc = "raised"

(***************************************************************************)
(* Specification of one call of extract_invoice_body                       *)
(***************************************************************************)

\* a page without 'Line' and without 'License:'
PageLabels == Page(<<S_GrossWeight, V_5kg>>)

\* 'Line' with no 'License:' after it
PageOpenSpan == Page(<<S_Line, S_LineTotal, T_1>>)

\* 'License:' only before the first 'Line'
PageLicenseFirst == Page(<<S_License \o <<" ", "A">>, S_Line, S_LineTotal, T_1>>)

\* a span without a 'Line Total' line
PageNoTotal == Page(<<S_Line, S_Description, T_1, S_License>>)

\* a span that parse_invoice_text segments
PageGood == Page(<<S_Line, S_LineTotal, T_1, T_MKT, S_License \o <<" ", "X">>>>)

\* 'License:' before the first 'Line', 'Line' inside a longer line, and two
\* 'License:' after it
PageTwoLicenses ==
    Page(<<S_License \o <<" ", "0">>, <<"I","n","v"," ">> \o S_Line, S_LineTotal,
           T_10, S_License \o <<" ", "A">>, T_100, S_License \o <<" ", "B">>>>)

Pages ==
    {PageLabels, PageOpenSpan, PageLicenseFirst, PageNoTotal, PageGood,
     PageTwoLicenses}

\* most pages of a document
MaxPages == 2

BodyDocuments == UNION {[1..n -> Pages] : n \in 0..MaxPages}

\* the call: page counts the pages the for loop has passed
body_call(text_pages) ==
    [pc |-> "page", text_pages |-> text_pages, page |-> 0, ret |-> NoneVal]

bodyIdle ==
    <<seg, scan, collection, error, archive, idx, batch_pc, invoice_data,
      results, progress_calls, has_callback, collection0, construction, workers>>

InitBody ==
    /\ invoice_body \in {body_call(text_pages) : text_pages \in BodyDocuments}
    /\ seg = <<>>
    /\ scan = <<>>
    /\ collection = <<>>
    /\ collection0 = <<>>
    /\ error = NoneVal
    /\ archive = <<>>
    /\ idx = 0
    /\ batch_pc = "idle"
    /\ invoice_data = <<>>
    /\ results = <<>>
    /\ progress_calls = <<>>
    /\ has_callback = FALSE
    /\ construction = NoneVal
    /\ workers = <<>>

\* if match: is false; the loop goes to the next page
BodyNoMatch ==
    /\ invoice_body.pc = "page"
    /\ invoice_body.page < Len(invoice_body.text_pages)
    /\ search_body(invoice_body.text_pages[invoice_body.page + 1]) = NoneVal
    /\ invoice_body' = [invoice_body EXCEPT !.page = @ + 1]
    /\ UNCHANGED bodyIdle

\* BodyMatch that goes on to the next page when the span gives None
BodyMatch_tries_next ==
    /\ invoice_body.pc = "page"
    /\ invoice_body.page < Len(invoice_body.text_pages)
    /\ search_body(invoice_body.text_pages[invoice_body.page + 1]) # NoneVal
    /\ LET call == parse_invoice_text(search_body(invoice_body.text_pages[invoice_body.page + 1]))
       IN  invoice_body' = IF call.ret = NoneVal
                   THEN [invoice_body EXCEPT !.page = @ + 1]
                   ELSE [invoice_body EXCEPT !.pc = call.pc, !.ret = call.ret]
    /\ UNCHANGED bodyIdle

\* return parse_invoice_text(match.group(1))
BodyMatch ==
    /\ invoice_body.pc = "page"
    /\ invoice_body.page < Len(invoice_body.text_pages)
    /\ search_body(invoice_body.text_pages[invoice_body.page + 1]) # NoneVal
    /\ LET call == parse_invoice_text(search_body(invoice_body.text_pages[invoice_body.page + 1]))
       IN  invoice_body' = [invoice_body EXCEPT !.pc = call.pc, !.ret = call.ret]
    /\ UNCHANGED bodyIdle

\* the loop ends without a match: return None
BodyNone ==
    /\ invoice_body.pc = "page"
    /\ invoice_body.page = Len(invoice_body.text_pages)
    /\ invoice_body' = [invoice_body EXCEPT !.pc = "returned", !.ret = NoneVal]
    /\ UNCHANGED bodyIdle

NextBody ==
    \/ BodyNoMatch
    \/ BodyMatch
    \/ BodyNone

SpecBody == InitBody /\ [][NextBody]_vars

\* where 'Line' and 'License:' begin on a page
LineAt(page_text) == {i \in 1..Len(page_text) : OccursAt(page_text, S_Line, i)}

LicenseAt(page_text) == {j \in 1..Len(page_text) : OccursAt(page_text, S_License, j)}

\* the page holds a 'Line' with a 'License:' after it
HasSpan(page_text) ==
    \E i \in LineAt(page_text) : \E j \in LicenseAt(page_text) : j >= i + Len(S_Line)

\* from the first 'Line' of the page up to the first 'License:' after it
FirstSpan(page_text) ==
    LET from == Least(LineAt(page_text))
        to == Least({j \in LicenseAt(page_text) : j >= from + Len(S_Line)})
    IN  SubSeq(page_text, from, to - 1)

\* the pages with a span
SpanPages(text_pages) == {p \in 1..Len(text_pages) : HasSpan(text_pages[p])}

\* C16: the loop never passes the first page that holds a span; when the
\* call has ended, the result is None if no page holds a span, and otherwise
\* what parse_invoice_text gives for the span from the first 'Line' to the
\* first following 'License:' of the first such page, None in particular
\* when that span has no 'Line Total' line, whatever later pages hold.
C16_FirstSpanPageDecides ==
    /\ \A p \in 1..invoice_body.page : ~HasSpan(invoice_body.text_pages[p])
    /\ invoice_body.pc # "page" =>
          /\ invoice_body.pc = extract_invoice_body(invoice_body.text_pages).pc
          /\ invoice_body.ret = extract_invoice_body(invoice_body.text_pages).ret
          /\ IF SpanPages(invoice_body.text_pages) = {}
             THEN invoice_body.ret = NoneVal /\ invoice_body.page = Len(invoice_body.text_pages)
             ELSE LET first == Least(SpanPages(invoice_body.text_pages))
                      span == FirstSpan(invoice_body.text_pages[first])
                  IN  /\ invoice_body.page = first - 1
                      /\ invoice_body.ret = parse_invoice_text(span).ret
                      /\ ~HasLineTotal(span) => invoice_body.ret = NoneVal

\* C16 witness: the first page holds a span without a 'Line Total' line, the
\* second a span that segments, and the call returned None.
C16_Witness ==
    /\ invoice_body.pc = "returned"
    /\ invoice_body.text_pages = <<PageNoTotal, PageGood>>
    /\ parse_invoice_text(FirstSpan(PageGood)).ret # NoneVal
    /\ invoice_body.ret = NoneVal

(***************************************************************************)
(* Two workers running the loop body of process_zip_archive (main.py:      *)
(* 303-315) on one KeyItemCollection, a document each, without a lock.     *)
(* Each worker takes the three steps of the loop body in order; the steps  *)
(* of the two workers interleave freely.                                   *)
(***************************************************************************)

Worker == {1, 2}

Other(w) == IF w = 1 THEN 2 ELSE 1

\* the documents given to the workers: the readable PDF entries
WorkerEntries == {e \in Entries : e.readable /\ is_pdf(e.filename)}

\* alone records history: whether the collection was all null when the
\* worker's scan began and the other worker has not scanned or reset since,
\* up to the worker's own aggregation
worker_call(file_info) ==
    [pc |-> "process", file_info |-> file_info, invoice_data |-> <<>>,
     document_results |-> <<>>, alone |-> TRUE]

workersIdle ==
    <<seg, scan, error, archive, idx, batch_pc, invoice_data, results,
      progress_calls, has_callback, collection0, construction, invoice_body>>

InitWorkers ==
    /\ workers \in [Worker -> {worker_call(e) : e \in WorkerEntries}]
    /\ collection = AppCollection
    /\ collection0 = AppCollection
    /\ seg = <<>>
    /\ scan = <<>>
    /\ error = NoneVal
    /\ archive = <<>>
    /\ idx = 0
    /\ batch_pc = "idle"
    /\ invoice_data = <<>>
    /\ results = <<>>
    /\ progress_calls = <<>>
    /\ has_callback = FALSE
    /\ construction = NoneVal
    /\ invoice_body = <<>>

\* the other worker, marked as disturbed if it stands between its scan and
\* its aggregation
Disturbed(o) ==
    IF workers[o].pc = "combine" THEN [workers[o] EXCEPT !.alone = FALSE]
    ELSE workers[o]

\* invoice_data = process_single_pdf(pdf_data, collection)
WorkerProcess(w) ==
    /\ workers[w].pc = "process"
    /\ LET r == process_single_pdf(workers[w].file_info.document, collection)
       IN  /\ collection' = r.items
           /\ workers' = [workers EXCEPT
                             ![w] = [@ EXCEPT !.pc = "combine",
                                              !.invoice_data = r.results,
                                              !.alone = AllNull(collection)],
                             ![Other(w)] = Disturbed(Other(w))]
    /\ UNCHANGED workersIdle

\* WorkerAppend that leaves the item results out of the record
WorkerAppend_drops_scalars(w) ==
    /\ workers[w].pc = "combine"
    /\ workers' = [workers EXCEPT
                      ![w] = [@ EXCEPT
                                 !.pc = "reset",
                                 !.document_results =
                                     document_results(workers[w].file_info.filename,
                                                      <<>>,
                                                      workers[w].invoice_data)]]
    /\ UNCHANGED <<collection, workersIdle>>

\* document_results = {'filename': ..., **{item.key: item.result ...}, **invoice_data}
WorkerAppend(w) ==
    /\ workers[w].pc = "combine"
    /\ workers' = [workers EXCEPT
                      ![w] = [@ EXCEPT
                                 !.pc = "reset",
                                 !.document_results =
                                     document_results(workers[w].file_info.filename,
                                                      collection,
                                                      workers[w].invoice_data)]]
    /\ UNCHANGED <<collection, workersIdle>>

\* for item in collection.items: item.result = None
WorkerReset(w) ==
    /\ workers[w].pc = "reset"
    /\ collection' = reset_results(collection)
    /\ workers' = [workers EXCEPT ![w] = [@ EXCEPT !.pc = "done"],
                                  ![Other(w)] = Disturbed(Other(w))]
    /\ UNCHANGED workersIdle

NextWorkers ==
    \/ \E w \in Worker : WorkerProcess(w)
    \/ \E w \in Worker : WorkerAppend(w)
    \/ \E w \in Worker : WorkerReset(w)

SpecWorkers == InitWorkers /\ [][NextWorkers]_vars

\* the record the worker's document gives when processed alone
RightRecord(w) ==
    document_results(workers[w].file_info.filename,
                     Processed[AppCollection][workers[w].file_info].items,
                     Processed[AppCollection][workers[w].file_info].results)

Aggregated(w) == workers[w].pc \in {"reset", "done"}

\* the value of a key in the worker's record, and in the record its document
\* gives alone
Recorded(w, key) == DictGet(workers[w].document_results, key)

Right(w, key) == DictGet(RightRecord(w), key)

\* C17: a worker whose scan began on an all-null collection and whose scan
\* and aggregation no step of the other worker came between has the record
\* its document gives alone; without that the record can be wrong, as the
\* witness shows: the shared collection is unsafe under interleaving.
C17_UndisturbedIsRight ==
    \A w \in Worker :
        (Aggregated(w) /\ workers[w].alone) => workers[w].document_results = RightRecord(w)

\* C17 witness: both workers are done; the record of worker 1 carries a
\* value that only the document of worker 2 holds, and the record of worker
\* 2 has lost a value its own document holds, the reset of worker 1 having
\* run first.
C17_Witness ==
    /\ \A w \in Worker : workers[w].pc = "done"
    /\ Right(1, S_comm_inv_no) = NoneVal
    /\ Recorded(1, S_comm_inv_no) # NoneVal
    /\ Recorded(1, S_comm_inv_no) = Right(2, S_comm_inv_no)
    /\ Right(2, S_comm_inv_no) # NoneVal
    /\ Recorded(2, S_comm_inv_no) = NoneVal

(***************************************************************************)
(* Specification of process_zip_archive on any collection of validly       *)
(* constructed items                                                       *)
(***************************************************************************)

\* collections a caller may try to build: the applications' collection, one
\* with the key 'filename', one with the name of a body field as a key
OfferedCollections ==
    { AppCollection,
      << KeyItem(S_filename, S_CommInvNo), KeyItem(S_gross_weight, S_GrossWeight) >>,
      << KeyItem(S_Line, S_GrossWeight) >> }

\* those of which every KeyItem() call succeeds
ValidCollections ==
    {c \in OfferedCollections : \A i \in 1..Len(c) : KeyAccepted(c[i].key)}

InitBatchKeys ==
    /\ archive \in Archives
    /\ collection \in ValidCollections
    /\ collection0 = collection
    /\ has_callback \in BOOLEAN
    /\ idx = 0
    /\ batch_pc = "loop"
    /\ invoice_data = <<>>
    /\ results = <<>>
    /\ progress_calls = <<>>
    /\ seg = <<>>
    /\ scan = <<>>
    /\ error = NoneVal
    /\ construction = NoneVal
    /\ workers = <<>>
    /\ invoice_body = <<>>

SpecBatchKeys == InitBatchKeys /\ [][NextBatch]_vars

\* C18: in every record the 'filename' entry is the name of the archive
\* entry, whatever validly constructed keys the collection has, and no key
\* of the collection is the name of a body field.
C18_FilenameKept_AsStated ==
    /\ Len(results) = Len(HandledPdfs)
    /\ \A k \in 1..Len(results) :
          DictGet(results[k], S_filename) = HandledPdfs[k].filename
    /\ \A i \in 1..Len(collection) : \A n \in 1..Len(Names) :
          collection[i].key # Names[n]

====
